---- MODULE Spec2Model ----
(***************************************************************************)
(* Model of workers/worker/utils/__init__.py: the retrying stream fetcher  *)
(* (stream, download_file), the progress reporter (ReportHook) and the     *)
(* device capacity prober (get_sdcard_bytes).                              *)
(*                                                                         *)
(* One call is in progress at a time (the code is single-threaded and      *)
(* blocking).  The environment chooses what the network, the file system   *)
(* and the external utilities answer.  urllib3's Retry object is modelled  *)
(* by its counters as configured at lines 71-79.  print is taken to be     *)
(* total: writing a line to stdout does not raise.                         *)
(***************************************************************************)
EXTENDS Integers, Sequences, FiniteSets, TLC

\* ------------------------------------------------------------ bounds
\* largest declared content-length the server sends (0 = header absent)
MaxLength == 3
\* largest number of body bytes the server delivers
MaxBody == 4
\* block_size of stream (default 1024), scaled down
block_size == 2
\* calls made on a ReportHook driven directly by a caller
MaxCalls == 3
\* words on the first line of fdisk's output
MaxTokens == 3
\* lines of diskutil's output
MaxLines == 2

\* ------------------------------------------------------------ constants
FAILURE_RETRIES == 6
STATUS_RETRIES == 2
status_forcelist == {413, 429, 500, 502, 503, 504}
width == 60
INIT_TOTAL == 100

\* statuses the modelled server answers with
Statuses == {200, 404, 503}

VARIABLES
    pc,               \* position of the call in progress
    entry,            \* function the caller invoked
    write_to,         \* stream's write_to: "file" or "None"
    callback,         \* stream's callback: "hook", "raising" or "None"
    retries,          \* the Retry object's remaining budgets
    requests,         \* HTTP requests sent by session.get
    history,          \* Retry.history: failed attempts so far, by class
    status_code,      \* status of the response session.get returned
    total_size,       \* int(content-length header), 0 when absent
    total_downloaded, \* bytes counted by stream
    chunks,           \* chunks yielded by req.iter_content so far
    fd,               \* "unset", "open", "closed" (file) or "BytesIO"
    sink,             \* bytes held by the destination file or buffer
    pos,              \* read/write cursor of the BytesIO buffer
    hook,             \* ReportHook: [_current_size, _last_line] (or absent)
    calls,            \* arguments of every reporthook call on this hook
    stdout,           \* lines printed
    outcome,          \* what the call returned or raised
    probe             \* get_sdcard_bytes: platform and utilities' answers

vars == <<pc, entry, write_to, callback, retries, requests, history,
          status_code,
          total_size, total_downloaded, chunks, fd, sink, pos, hook, calls,
          stdout, outcome, probe>>

\* ------------------------------------------------------------ helpers
Min(a, b) == IF a <= b THEN a ELSE b

RECURSIVE Flatten(_)
Flatten(ss) == IF ss = <<>> THEN <<>> ELSE Head(ss) \o Flatten(Tail(ss))

\* the i-th byte of the response body (bytes are told apart by position)
BodyByte(i) == i % 256

\* the chunk of n bytes that follows `done` bytes already delivered
ChunkAt(done, n) == [j \in 1..n |-> BodyByte(done + j)]

\* ------------------------------------------------------------ Retry
\* variant: the status budget equals the other budgets
NewRetryStatusSix ==
    [total |-> FAILURE_RETRIES, connect |-> FAILURE_RETRIES,
     read |-> FAILURE_RETRIES, status |-> FAILURE_RETRIES]

NewRetry == [total |-> FAILURE_RETRIES, connect |-> FAILURE_RETRIES,
             read |-> FAILURE_RETRIES, status |-> STATUS_RETRIES]

NoHistory == [connect |-> 0, read |-> 0, status |-> 0]

\* variant: one counter shared by the classes
IncrementAll(r, class) ==
    [total |-> r.total - 1, connect |-> r.connect - 1, read |-> r.read - 1,
     status |-> r.status - 1]

\* variant: the total is left alone
IncrementClassOnly(r, class) == [r EXCEPT ![class] = @ - 1]

\* Retry.increment: the total and the failing class's counter go down by one
Increment(r, class) == [r EXCEPT !.total = @ - 1, ![class] = @ - 1]

\* Retry.is_exhausted: some counter fell below zero
IsExhausted(r) ==
    r.total < 0 \/ r.connect < 0 \/ r.read < 0 \/ r.status < 0

\* ------------------------------------------------------------ ReportHook
NoLine == [kind |-> "None", dots |-> 0, spaces |-> 0, pct |-> 0, end |-> ""]

UnknownLine ==
    [kind |-> "unknown size", dots |-> 0, spaces |-> 0, pct |-> 0, end |-> ""]

BarLine(d, s, p, e) ==
    [kind |-> "bar", dots |-> d, spaces |-> s, pct |-> p, end |-> e]

\* ---- binary floating point (IEEE 754 double), as far as lines 50-52 need it
\* bits of a double's significand after the leading one
MANTISSA_BITS == 52

\* the s for which c * 2^s lies in [t, 2t), for 0 < c < t: float(c) / t has
\* the exponent -s
RECURSIVE Shift(_, _, _)
Shift(c, t, s) == IF c * 2^s >= t THEN s ELSE Shift(c, t, s + 1)

\* n more steps of the binary long division by t: the remainder left and the
\* last quotient bit produced
RECURSIVE Divide(_, _, _, _)
Divide(r, last, t, n) ==
    IF n = 0 THEN [r |-> r, last |-> last]
    ELSE IF 2 * r >= t THEN Divide(2 * r - t, 1, t, n - 1)
    ELSE Divide(2 * r, 0, t, n - 1)

RECURSIVE Log2Floor(_, _)
Log2Floor(m, e) == IF 2^(e + 1) <= m THEN Log2Floor(m, e + 1) ELSE e

\* whether float(c) / t, rounded to nearest-even, lies below c / t, and if so
\* whether multiplying it by n still rounds to the integer m = c * n / t
ProductReaches(c, t, n, m) ==
    LET s == Shift(c, t, 0)
        q == Divide(c * 2^s - t, 1, t, MANTISSA_BITS)
        below == q.r > 0 /\ (2 * q.r < t \/ (2 * q.r = t /\ q.last = 0))
        e == Log2Floor(m, 0)
        half_gap == IF 2^e = m THEN 4 ELSE 2
    IN ~below \/ q.r * n * half_gap <= t * 2^(e + s)

\* int(ratio * n) for ratio = min(float(cur) / total, 1.0), 0 <= cur < total:
\* the floor of cur * n / total, except that an exact integer m is missed
\* (m - 1 results) when the rounded quotient times n rounds below m
Scaled(cur, total, n) ==
    LET m == (cur * n) \div total
    IN IF cur = 0 \/ (cur * n) % total # 0 \/ ProductReaches(cur, total, n, m)
       THEN Min(m, n)
       ELSE m - 1

\* float(cur) / total with total == 0 raises
ZeroDivisionLine ==
    [kind |-> "ZeroDivisionError", dots |-> 0, spaces |-> 0, pct |-> 0,
     end |-> ""]

\* lines 50-55: the line of the branch that computes the ratio
RatioLine(cur, total) ==
    LET avail_dots == width - 2 IN
    IF total = 0 THEN ZeroDivisionLine
    ELSE LET shaded_dots == Min(Scaled(cur, total, avail_dots), avail_dots)
             percent == Min(Scaled(cur, total, 100), 100)
         IN BarLine(shaded_dots, avail_dots - shaded_dots, percent, "\r")

\* variant: the sentinel is tested after the comparison with the total
RenderBarFirst(cur, total) ==
    LET avail_dots == width - 2 IN
    IF cur >= total THEN BarLine(avail_dots, 0, 100, "\n")
    ELSE IF total = -1 THEN UnknownLine
    ELSE RatioLine(cur, total)

\* variant: the comparison with the total is strict
RenderGreater(cur, total) ==
    LET avail_dots == width - 2 IN
    IF total = -1 THEN UnknownLine
    ELSE IF cur > total THEN BarLine(avail_dots, 0, 100, "\n")
    ELSE RatioLine(cur, total)

\* variant: the bar is complete only when the cumulative size exceeds total
RenderStrict(cur, total) ==
    LET avail_dots == width - 2 IN
    IF total = -1 THEN UnknownLine
    ELSE IF total = 0 \/ cur > total THEN BarLine(avail_dots, 0, 100, "\n")
    ELSE RatioLine(cur, total)

\* the line reporthook computes from the cumulative size and total_size
Render(cur, total) ==
    LET avail_dots == width - 2 IN
    IF total = -1 THEN UnknownLine
    ELSE IF cur >= total THEN BarLine(avail_dots, 0, 100, "\n")
    ELSE RatioLine(cur, total)

\* variant: chunk_size is assigned, not added
AccumulateAssign(cur, chunk_ne_0, chunk_size) ==
    IF chunk_ne_0 THEN chunk_size ELSE cur

\* the cumulative size after a call: chunk_size is added unless chunk == 0
Accumulate(cur, chunk_ne_0, chunk_size) ==
    IF chunk_ne_0 THEN cur + chunk_size ELSE cur

\* variant: every computed line is printed
ShouldPrintAlways(line, last) == TRUE

\* whether reporthook prints the line it computed
ShouldPrint(line, last) == line # last

\* ReportHook.reporthook: the hook and stdout after the call
HookAfter(h, chunk_ne_0, chunk_size, total) ==
    LET cur == Accumulate(h._current_size, chunk_ne_0, chunk_size)
        line == Render(cur, total)
    IN [_current_size |-> cur,
        _last_line |-> IF ShouldPrint(line, h._last_line) THEN line
                       ELSE h._last_line]

StdoutAfter(out, h, chunk_ne_0, chunk_size, total) ==
    LET cur == Accumulate(h._current_size, chunk_ne_0, chunk_size)
        line == Render(cur, total)
    IN IF ShouldPrint(line, h._last_line) THEN Append(out, line) ELSE out

\* ReportHook.__init__ before its first reporthook call
BlankHook == [_current_size |-> 0, _last_line |-> NoLine]

NoHook == [_current_size |-> -1, _last_line |-> NoLine]

\* ------------------------------------------------------------ state
NoOutcome == [kind |-> "none", ok |-> FALSE, size |-> 0, exp |-> "none"]

NoRun == [launched |-> FALSE, out |-> <<>>]

NoProbe == [platform |-> "none", fdisk |-> NoRun, diskutil |-> NoRun,
            logged |-> <<>>]

Init ==
    /\ pc = "idle"
    /\ entry = "none"
    /\ write_to = "None"
    /\ callback = "None"
    /\ retries = NewRetry
    /\ requests = 0
    /\ history = NoHistory
    /\ status_code = 0
    /\ total_size = 0
    /\ total_downloaded = 0
    /\ chunks = <<>>
    /\ fd = "unset"
    /\ sink = <<>>
    /\ pos = 0
    /\ hook = NoHook
    /\ calls = <<>>
    /\ stdout = <<>>
    /\ outcome = NoOutcome
    /\ probe = NoProbe

\* ------------------------------------------------------------ exceptions
ExcLine(e) == [kind |-> e, dots |-> 0, spaces |-> 0, pct |-> 0, end |-> ""]

\* variant: the handler catches the size-mismatch error only
CaughtAssertionOnly(e) == e = "AssertionError"

\* download_file's handler: `except Exception` catches every error of stream
Caught(e) == TRUE

\* an exception e leaves stream: download_file turns it into (False, e),
\* a direct caller of stream sees it raised
RaiseOutcome(e) ==
    IF entry = "download_file" /\ Caught(e)
    THEN [kind |-> "return", ok |-> FALSE, size |-> 0, exp |-> e]
    ELSE [kind |-> "raise", ok |-> FALSE, size |-> 0, exp |-> e]

\* the handler's print(exp)
RaiseStdout(out, e) ==
    IF entry = "download_file" /\ Caught(e) THEN Append(out, ExcLine(e)) ELSE out

ReturnOutcome(n) == [kind |-> "return", ok |-> TRUE, size |-> n, exp |-> "none"]

\* ------------------------------------------------------------ calls
\* variant: __init__ renders nothing
ConstructSilent ==
    /\ hook' = BlankHook
    /\ stdout' = <<>>
    /\ calls' = <<>>

\* ReportHook(): __init__ calls reporthook(0, 0, 100)
Construct ==
    /\ hook' = HookAfter(BlankHook, FALSE, 0, INIT_TOTAL)
    /\ stdout' = StdoutAfter(<<>>, BlankHook, FALSE, 0, INIT_TOTAL)
    /\ calls' = << <<FALSE, 0, INIT_TOTAL>> >>

\* download_file(url, fpath), up to the session being ready in stream
download_file ==
    /\ pc = "idle"
    /\ entry' = "download_file"
    /\ write_to' = "file"
    /\ callback' = "hook"
    /\ Construct
    /\ retries' = NewRetry
    /\ pc' = "get"
    /\ UNCHANGED <<requests, history, status_code, total_size,
                   total_downloaded, chunks, fd, sink, pos, outcome, probe>>

\* stream(url, write_to, callback) called directly
stream(w, cb) ==
    /\ pc = "idle"
    /\ entry' = "stream"
    /\ write_to' = w
    /\ callback' = cb
    /\ IF cb = "hook" THEN Construct ELSE UNCHANGED <<hook, stdout, calls>>
    /\ retries' = NewRetry
    /\ pc' = "get"
    /\ UNCHANGED <<requests, history, status_code, total_size,
                   total_downloaded, chunks, fd, sink, pos, outcome, probe>>

\* ------------------------------------------------------------ session.get
\* one attempt fails with an error of the given class ("connect" or "read")
AttemptError(class) ==
    /\ pc = "get"
    /\ requests' = requests + 1
    /\ retries' = Increment(retries, class)
    /\ history' = [history EXCEPT ![class] = @ + 1]
    /\ IF IsExhausted(retries')
       THEN /\ pc' = "done"
            /\ outcome' = RaiseOutcome("ConnectionError")
            /\ stdout' = RaiseStdout(stdout, "ConnectionError")
       ELSE UNCHANGED <<pc, outcome, stdout>>
    /\ UNCHANGED <<entry, write_to, callback, status_code, total_size,
                   total_downloaded, chunks, fd, sink, pos, hook, calls, probe>>

\* one attempt is answered with a status of status_forcelist
RetryableStatus(s) ==
    /\ pc = "get"
    /\ s \in status_forcelist
    /\ requests' = requests + 1
    /\ retries' = Increment(retries, "status")
    /\ history' = [history EXCEPT !.status = @ + 1]
    /\ IF IsExhausted(retries')
       THEN /\ pc' = "done"
            /\ outcome' = RaiseOutcome("RetryError")
            /\ stdout' = RaiseStdout(stdout, "RetryError")
       ELSE UNCHANGED <<pc, outcome, stdout>>
    /\ UNCHANGED <<entry, write_to, callback, status_code, total_size,
                   total_downloaded, chunks, fd, sink, pos, hook, calls, probe>>

\* variant: only server errors raise
IsHttpErrorServerOnly(s) == s >= 500 /\ s < 600

\* Response.raise_for_status
IsHttpError(s) == s >= 400 /\ s < 600

\* one attempt is answered with any other status: session.get returns it,
\* then raise_for_status and the content-length header are evaluated
Response(s, length) ==
    /\ pc = "get"
    /\ s \notin status_forcelist
    /\ requests' = requests + 1
    /\ status_code' = s
    /\ IF IsHttpError(s)
       THEN /\ pc' = "done"
            /\ outcome' = RaiseOutcome("HTTPError")
            /\ stdout' = RaiseStdout(stdout, "HTTPError")
            /\ UNCHANGED total_size
       ELSE /\ pc' = "open"
            /\ total_size' = length
            /\ UNCHANGED <<outcome, stdout>>
    /\ UNCHANGED <<entry, write_to, callback, retries, history,
                   total_downloaded, chunks, fd, sink, pos, hook, calls, probe>>

\* ------------------------------------------------------------ destination
\* the destination: open(write_to, "wb"), which may fail, or io.BytesIO()
Open(fails) ==
    /\ pc = "open"
    /\ IF write_to # "None"
       THEN IF fails
            THEN /\ pc' = "done"
                 /\ outcome' = RaiseOutcome("OSError")
                 /\ stdout' = RaiseStdout(stdout, "OSError")
                 /\ UNCHANGED <<fd, sink, pos>>
            ELSE /\ pc' = "iter"
                 /\ fd' = "open"
                 /\ sink' = <<>>
                 /\ UNCHANGED <<outcome, stdout, pos>>
       ELSE /\ ~fails
            /\ pc' = "iter"
            /\ fd' = "BytesIO"
            /\ sink' = <<>>
            /\ pos' = 0
            /\ UNCHANGED <<outcome, stdout>>
    /\ UNCHANGED <<entry, write_to, callback, retries, requests, history,
                   status_code, total_size, total_downloaded, chunks, hook, calls, probe>>

\* ------------------------------------------------------------ body
Delivered == Len(Flatten(chunks))

\* lines 95-96: the chunk is written only under `if write_to:`
Written(w, held, data) == IF w # "None" THEN held \o data ELSE held

\* the exception the callback raises on a chunk, "none" when it returns
CallbackError(cb, fault) ==
    IF cb = "None" THEN "TypeError"
    ELSE IF cb = "raising" /\ fault = "callback" THEN "CallbackError"
    ELSE "none"

\* one turn of the loop over req.iter_content(block_size): a chunk of n bytes
\* arrives, the callback is called, the chunk is counted and written
Chunk(n, fault) ==
    /\ pc = "iter"
    /\ Delivered + n <= MaxBody
    /\ fault = "callback" => callback = "raising"
    /\ fault = "write" => write_to # "None"
    /\ LET data == ChunkAt(Delivered, n)
           cberr == CallbackError(callback, fault)
           called == callback = "hook"
           out == IF called
                  THEN StdoutAfter(stdout, hook, TRUE, block_size, total_size)
                  ELSE stdout
       IN /\ chunks' = Append(chunks, data)
          /\ hook' = IF called
                     THEN HookAfter(hook, TRUE, block_size, total_size)
                     ELSE hook
          /\ calls' = IF called
                      THEN Append(calls, <<TRUE, block_size, total_size>>)
                      ELSE calls
          /\ IF cberr # "none"
             THEN /\ pc' = "done"
                  /\ outcome' = RaiseOutcome(cberr)
                  /\ stdout' = RaiseStdout(out, cberr)
                  /\ UNCHANGED <<total_downloaded, sink>>
             ELSE /\ total_downloaded' = total_downloaded + Len(data)
                  /\ IF fault = "write"
                     THEN /\ pc' = "done"
                          /\ outcome' = RaiseOutcome("OSError")
                          /\ stdout' = RaiseStdout(out, "OSError")
                          /\ UNCHANGED sink
                     ELSE /\ sink' = Written(write_to, sink, data)
                          /\ stdout' = out
                          /\ UNCHANGED <<pc, outcome>>
    /\ UNCHANGED <<entry, write_to, callback, retries, requests, history,
                   status_code, total_size, fd, pos, probe>>

\* req.iter_content raises while the body is being read
BodyError ==
    /\ pc = "iter"
    /\ pc' = "done"
    /\ outcome' = RaiseOutcome("ChunkedEncodingError")
    /\ stdout' = RaiseStdout(stdout, "ChunkedEncodingError")
    /\ UNCHANGED <<entry, write_to, callback, retries, requests, history,
                   status_code, total_size, total_downloaded, chunks, fd, sink, pos, hook,
                   calls, probe>>

\* variant: only a truncated body is detected
SizeMismatchTruncatedOnly(declared, downloaded) ==
    declared # 0 /\ downloaded < declared

\* lines 103-108: the size check
SizeMismatch(declared, downloaded) == declared # 0 /\ downloaded # declared

\* lines 98-101: the handle after the loop
Closed(w, handle) == IF w # "None" THEN "closed" ELSE handle

\* variant: a size mismatch sends the fetch back to session.get
EndOfBodyRetry ==
    /\ pc = "iter"
    /\ fd' = Closed(write_to, fd)
    /\ pos' = IF write_to # "None" THEN pos ELSE 0
    /\ IF SizeMismatch(total_size, total_downloaded)
       THEN /\ pc' = "get"
            /\ UNCHANGED outcome
       ELSE /\ pc' = "done"
            /\ outcome' = ReturnOutcome(total_downloaded)
    /\ UNCHANGED <<entry, write_to, callback, retries, requests, history,
                   status_code, total_size, total_downloaded, chunks, sink,
                   hook, calls, stdout, probe>>

\* the body is exhausted: close or rewind, check the size, return
EndOfBody ==
    /\ pc = "iter"
    /\ fd' = Closed(write_to, fd)
    /\ pos' = IF write_to # "None" THEN pos ELSE 0
    /\ pc' = "done"
    /\ IF SizeMismatch(total_size, total_downloaded)
       THEN /\ outcome' = RaiseOutcome("AssertionError")
            /\ stdout' = RaiseStdout(stdout, "AssertionError")
       ELSE /\ outcome' = ReturnOutcome(total_downloaded)
            /\ UNCHANGED stdout
    /\ UNCHANGED <<entry, write_to, callback, retries, requests, history,
                   status_code, total_size, total_downloaded, chunks, sink, hook, calls,
                   probe>>

\* ------------------------------------------------------------ ReportHook driven by a caller
\* hook = ReportHook()
NewReportHook ==
    /\ pc = "idle"
    /\ entry' = "ReportHook"
    /\ Construct
    /\ pc' = "report"
    /\ UNCHANGED <<write_to, callback, retries, requests, history,
                   status_code, total_size, total_downloaded, chunks, fd, sink, pos,
                   outcome, probe>>

ChunkSizes == {1, 2, 29}

TotalSizes == {-1, 0, 3, 50}

\* (chunk != 0, chunk_size) of a call; chunk_size is not read when chunk == 0
HookArgs == {<<FALSE, 1>>} \cup {<<TRUE, cs>> : cs \in ChunkSizes}

\* hook.reporthook(chunk, chunk_size, total)
reporthook(chunk_ne_0, chunk_size, total) ==
    /\ pc = "report"
    /\ Len(calls) <= MaxCalls
    /\ hook' = HookAfter(hook, chunk_ne_0, chunk_size, total)
    /\ stdout' = StdoutAfter(stdout, hook, chunk_ne_0, chunk_size, total)
    /\ calls' = Append(calls, <<chunk_ne_0, chunk_size, total>>)
    /\ UNCHANGED <<pc, entry, write_to, callback, retries, requests, history,
                   status_code, total_size, total_downloaded, chunks, fd, sink,
                   pos, outcome, probe>>

\* ------------------------------------------------------------ get_sdcard_bytes
\* a word of a utility's output: a run of digits, or anything else
Word(w) == [word |-> w, digits |-> <<>>]

Number(d) == [word |-> "", digits |-> d]

DigitStrings == {<<7>>, <<1, 2>>}

IsNumber(t) == t.digits # <<>>

\* int() of a run of decimal digits
RECURSIVE IntOf(_)
IntOf(d) ==
    IF d = <<>> THEN 0
    ELSE 10 * IntOf(SubSeq(d, 1, Len(d) - 1)) + d[Len(d)]

SeqsUpTo(S, n) == UNION {[1..k -> S] : k \in 0..n}

\* first lines fdisk may print, as words separated by single spaces
FdiskTokens == {Word("Disk"), Word("bytes,")} \cup {Number(d) : d \in DigitStrings}

FdiskOutputs == {<<>>} \cup {<<l>> : l \in SeqsUpTo(FdiskTokens, MaxTokens)}

\* lines diskutil may print: <integer>digits</integer> after three tabs, or other
DiskutilLines == {Word("<key>")} \cup
                 {[word |-> "<integer>", digits |-> d] : d \in DigitStrings}

DiskutilOutputs == SeqsUpTo(DiskutilLines, MaxLines)

Runs(outputs) == {[launched |-> FALSE, out |-> <<>>]} \cup
                 {[launched |-> TRUE, out |-> o] : o \in outputs}

\* re.search("([0-9]+) bytes,", line): positions where the pattern matches
BytesMatches(line) ==
    {i \in 1..(Len(line) - 1) : IsNumber(line[i]) /\ line[i + 1] = Word("bytes,")}

SetMin(S) == CHOOSE x \in S : \A y \in S : x <= y

\* lines 127-134: the try block; err is the exception it logs, "none" when
\* it returns value
Strategy1(run) ==
    IF ~run.launched THEN [err |-> "FileNotFoundError", value |-> 0]
    ELSE IF run.out = <<>> THEN [err |-> "IndexError", value |-> 0]
    ELSE IF BytesMatches(run.out[1]) = {}
         THEN [err |-> "AttributeError", value |-> 0]
    ELSE [err |-> "none",
          value |-> IntOf(run.out[1][SetMin(BytesMatches(run.out[1]))].digits)]

\* re.match(r"\t\t\t<integer>(\d+)</integer>", line) over the lines
IntegerLines(out) ==
    {i \in 1..Len(out) : out[i].word = "<integer>" /\ IsNumber(out[i])}

\* lines 136-143, on darwin: subprocess.run is not inside a try
Strategy2(run) ==
    IF ~run.launched THEN [err |-> "FileNotFoundError", value |-> 0, found |-> FALSE]
    ELSE IF IntegerLines(run.out) = {}
         THEN [err |-> "none", value |-> 0, found |-> FALSE]
    ELSE [err |-> "none", found |-> TRUE,
          value |-> IntOf(run.out[SetMin(IntegerLines(run.out))].digits)]

\* get_sdcard_bytes(sdcard_path) is called; fdisk answers
get_sdcard_bytes(platform, run) ==
    /\ pc = "idle"
    /\ entry' = "get_sdcard_bytes"
    /\ probe' = [platform |-> platform, fdisk |-> run, diskutil |-> NoRun,
                 logged |-> <<>>]
    /\ pc' = "fdisk"
    /\ UNCHANGED <<write_to, callback, retries, requests, history,
                   status_code, total_size, total_downloaded, chunks, fd, sink, pos, hook,
                   calls, stdout, outcome>>

\* the try block returns the size, or logs the error and falls through
FirstStrategy ==
    /\ pc = "fdisk"
    /\ LET r == Strategy1(probe.fdisk)
       IN IF r.err = "none"
          THEN /\ pc' = "done"
               /\ outcome' = ReturnOutcome(r.value)
               /\ UNCHANGED probe
          ELSE /\ pc' = "fallback"
               /\ probe' = [probe EXCEPT !.logged = Append(@, r.err)]
               /\ UNCHANGED outcome
    /\ UNCHANGED <<entry, write_to, callback, retries, requests, history,
                   status_code, total_size, total_downloaded, chunks, fd, sink, pos, hook,
                   calls, stdout>>

\* the darwin fallback, then return 0
SecondStrategy(run) ==
    /\ pc = "fallback"
    /\ pc' = "done"
    /\ IF probe.platform = "darwin"
       THEN /\ probe' = [probe EXCEPT !.diskutil = run]
            /\ LET r == Strategy2(run)
               IN outcome' = IF r.err # "none"
                             THEN [kind |-> "raise", ok |-> FALSE, size |-> 0,
                                   exp |-> r.err]
                             ELSE IF r.found THEN ReturnOutcome(r.value)
                             ELSE ReturnOutcome(0)
       ELSE /\ run = NoRun
            /\ outcome' = ReturnOutcome(0)
            /\ UNCHANGED probe
    /\ UNCHANGED <<entry, write_to, callback, retries, requests, history,
                   status_code, total_size, total_downloaded, chunks, fd, sink, pos, hook,
                   calls, stdout>>

\* ------------------------------------------------------------ next call
\* the caller is done with the call's objects; the next call starts afresh
Reset ==
    /\ pc \in {"done", "report"}
    /\ pc' = "idle"
    /\ entry' = "none"
    /\ write_to' = "None"
    /\ callback' = "None"
    /\ retries' = NewRetry
    /\ requests' = 0
    /\ history' = NoHistory
    /\ status_code' = 0
    /\ total_size' = 0
    /\ total_downloaded' = 0
    /\ chunks' = <<>>
    /\ fd' = "unset"
    /\ sink' = <<>>
    /\ pos' = 0
    /\ hook' = NoHook
    /\ calls' = <<>>
    /\ stdout' = <<>>
    /\ outcome' = NoOutcome
    /\ probe' = NoProbe

Next ==
    \/ download_file
    \/ \E w \in {"file", "None"}, cb \in {"hook", "raising", "None"} : stream(w, cb)
    \/ \E class \in {"connect", "read"} : AttemptError(class)
    \/ \E s \in Statuses : RetryableStatus(s)
    \/ \E s \in Statuses, length \in 0..MaxLength : Response(s, length)
    \/ \E fails \in BOOLEAN : Open(fails)
    \/ \E n \in 1..block_size, fault \in {"none", "callback", "write"} : Chunk(n, fault)
    \/ BodyError
    \/ EndOfBody
    \/ NewReportHook
    \/ \E a \in HookArgs, t \in TotalSizes : reporthook(a[1], a[2], t)
    \/ \E p \in {"linux", "darwin"}, run \in Runs(FdiskOutputs) : get_sdcard_bytes(p, run)
    \/ FirstStrategy
    \/ \E run \in Runs(DiskutilOutputs) : SecondStrategy(run)
    \/ Reset

Spec == Init /\ [][Next]_vars

\* ------------------------------------------------------------ properties
Fetching == entry \in {"download_file", "stream"}

\* download_file's loop over the body ran to its end: line 99 closed the file
BodyExhausted == pc = "done" /\ write_to # "None" /\ fd = "closed"

SizeError == [kind |-> "return", ok |-> FALSE, size |-> 0,
              exp |-> "AssertionError"]

\* C1: when the response declares a content length L > 0 and download_file
\* has read the body to its end, it returns (True, L) if exactly L bytes
\* were streamed and (False, size-mismatch error) otherwise; it never
\* returns success with a byte count other than L.
C1_SizeContract ==
    (entry = "download_file" /\ pc = "done" /\ total_size > 0) =>
        /\ outcome.ok => (outcome.size = total_size /\ Delivered = total_size)
        /\ BodyExhausted =>
              IF Delivered = total_size
              THEN outcome = ReturnOutcome(total_size)
              ELSE outcome = SizeError

C1_Witness ==
    /\ entry = "download_file" /\ pc = "done" /\ BodyExhausted
    /\ total_size = 3 /\ Delivered = 2 /\ outcome = SizeError

C3_BufferHoldsBody ==
    (entry = "stream" /\ write_to = "None" /\ pc = "done"
     /\ outcome.kind = "return") =>
        /\ sink = Flatten(chunks)
        /\ Len(sink) = total_downloaded
        /\ pos = 0

\* C4: once a fetch has opened the destination file, the file is closed
\* when the fetch ends, on every exit path.
C4_FileClosedOnExit ==
    (Fetching /\ write_to # "None" /\ pc = "done") => fd # "open"

\* attempts answered 503 so far, and whether that is all that went wrong
N503 == history.status

Only503 == history.connect = 0 /\ history.read = 0

RetryFailure == [kind |-> "return", ok |-> FALSE, size |-> 0,
                 exp |-> "RetryError"]

\* the server's final answer was 200 with a body of the declared size, read
\* to its end
SucceededCorrectly ==
    /\ status_code = 200 /\ BodyExhausted
    /\ ~(total_size # 0 /\ Delivered # total_size)

C6_NoRetryOnClientError ==
    (Fetching /\ status_code >= 400 /\ status_code \notin status_forcelist) =>
        /\ pc = "done"
        /\ outcome.kind # "none" /\ ~outcome.ok /\ outcome.exp = "HTTPError"
        /\ requests = history.connect + history.read + history.status + 1
        /\ (history = NoHistory => requests = 1 /\ retries = NewRetry)
        /\ chunks = <<>> /\ sink = <<>> /\ fd = "unset"
        /\ total_downloaded = 0

C6_Witness ==
    /\ entry = "download_file" /\ status_code = 404 /\ requests = 1
    /\ outcome.kind = "return" /\ ~outcome.ok

Classes == {"connect", "read", "status"}

\* C7: a failed attempt of one class takes one from that class's budget and
\* leaves the other classes' budgets as they were, and the fetch ends in
\* Failure as soon as one class's budget is exhausted.
C7_BudgetsIndependent ==
    [][\A c \in Classes :
          /\ history'[c] = history[c] + 1 =>
                /\ retries'[c] = retries[c] - 1
                /\ \A d \in Classes \ {c} : retries'[d] = retries[d]
          /\ (pc = "get" /\ retries'[c] < 0) =>
                /\ pc' = "done"
                /\ outcome'.kind # "none" /\ ~outcome'.ok
          /\ (pc = "get" /\ history'[c] = history[c]) =>
                retries'[c] = retries[c]]_vars

C7_Witness ==
    /\ Fetching /\ pc = "done" /\ ~outcome.ok
    /\ retries.status = -1 /\ retries.connect = 5 /\ retries.read = 4

\* C8: get_sdcard_bytes never raises, and returns 0 when neither strategy
\* yields an integer.
C8_ProbeNeverRaises ==
    (entry = "get_sdcard_bytes" /\ pc = "done") =>
        /\ outcome.kind = "return"
        /\ (Strategy1(probe.fdisk).err # "none"
            /\ (probe.platform # "darwin" \/ ~Strategy2(probe.diskutil).found))
              => outcome.size = 0

\* lines printed by reporthook (the handler's print(exp) left out)
IsHookLine(l) == l.kind \in {"bar", "unknown size"}

HookLines(out) == SelectSeq(out, IsHookLine)

\* C9: a reporthook call prints at most one line, and only a line that
\* differs from the last line printed; a call that leaves the cumulative
\* size and the total as the call before it had them prints nothing.
C9_PrintsOnlyChanges ==
    [][(calls # <<>> /\ Len(calls') = Len(calls) + 1) =>
          LET old == HookLines(stdout)
              new == HookLines(stdout')
          IN /\ \/ new = old
                \/ /\ Len(new) = Len(old) + 1
                   /\ SubSeq(new, 1, Len(old)) = old
                   /\ old # <<>> => new[Len(new)] # old[Len(old)]
             /\ (hook'._current_size = hook._current_size
                 /\ calls'[Len(calls')][3] = calls[Len(calls)][3]) => new = old
      ]_vars

C9_Witness ==
    /\ entry = "ReportHook" /\ Len(calls) = 4 /\ Len(HookLines(stdout)) = 2
    /\ calls[3] = calls[4] /\ calls[2][3] = 3

FullLine == BarLine(width - 2, 0, 100, "\n")

Count(seq, x) == Cardinality({i \in 1..Len(seq) : seq[i] = x})

\* every call after the constructor's adds to the cumulative size and names
\* the same total > 0
DrivenUpwards ==
    /\ hook # NoHook /\ Len(calls) >= 2
    /\ \A i \in 2..Len(calls) :
          calls[i][1] /\ calls[i][2] > 0 /\ calls[i][3] = calls[2][3]
    /\ calls[2][3] > 0

\* C10: on a ReportHook driven with strictly increasing cumulative sizes and
\* one total > 0, the 100% line is not printed before the cumulative size
\* reaches the total; from then on it has been printed exactly once and is
\* the last line printed, whatever calls follow.
C10_CompleteLineOnce ==
    DrivenUpwards =>
        LET printed == HookLines(stdout) IN
        IF hook._current_size >= calls[2][3]
        THEN /\ Count(printed, FullLine) = 1
             /\ printed[Len(printed)] = FullLine
        ELSE Count(printed, FullLine) = 0

C10_Witness ==
    /\ entry = "ReportHook" /\ DrivenUpwards /\ Len(calls) = 4
    /\ calls[2][3] = 3 /\ hook._current_size = 5
    /\ Len(HookLines(stdout)) = 3

\* the arguments of the latest reporthook call
LastCall == calls[Len(calls)]

\* C11: after a reporthook call with total_size = -1 the line computed is
\* the literal "unknown size", whatever the cumulative size and the number
\* of calls: it is the line last rendered and the last one on stdout.
C11_UnknownSize ==
    (hook # NoHook /\ calls # <<>> /\ LastCall[3] = -1) =>
        /\ hook._last_line = UnknownLine
        /\ HookLines(stdout)[Len(HookLines(stdout))] = UnknownLine

C11_Witness ==
    /\ entry = "ReportHook" /\ Len(calls) = 4 /\ LastCall[3] = -1
    /\ hook._current_size = 31 /\ calls[3][3] = 50

\* C12: the cumulative size of a ReportHook is 0 at construction and no
\* reporthook call lowers it.
C12_NeverRegresses ==
    [][hook' # NoHook =>
          IF hook = NoHook THEN hook'._current_size = 0
          ELSE hook'._current_size >= hook._current_size]_vars

C12_Witness ==
    /\ entry = "ReportHook" /\ Len(calls) = 4 /\ hook._current_size = 32
    /\ calls[2][2] = 29 /\ calls[4][2] = 1

EmptyBar == BarLine(0, width - 2, 0, "\r")

\* C13: in download_file the empty 0% bar is the first line printed, it is
\* there before any HTTP request is sent, and the constructor's zero-chunk
\* call leaves the cumulative size at 0.
C13_EmptyBarFirst ==
    entry = "download_file" =>
        /\ stdout # <<>> /\ stdout[1] = EmptyBar
        /\ calls # <<>> /\ calls[1] = <<FALSE, 0, INIT_TOTAL>>
        /\ Len(calls) = 1 => hook._current_size = 0
        /\ requests = 0 => (stdout = <<EmptyBar>> /\ Len(calls) = 1)

C13_Witness ==
    /\ entry = "download_file" /\ pc = "get" /\ requests = 0
    /\ stdout = <<EmptyBar>> /\ hook._current_size = 0

\* C14: in stream the callback is called once per chunk, in chunk order,
\* with the chunk's size and the declared total size.
C14_CallbackPerChunk ==
    (Fetching /\ callback = "hook") =>
        /\ Len(calls) = Len(chunks) + 1
        /\ \A k \in 1..Len(chunks) :
              calls[k + 1] = <<TRUE, Len(chunks[k]), total_size>>

RequestsMade == history.connect + history.read + history.status + 1

\* C15: a size mismatch is raised only after the loop over the body has
\* ended and the destination was closed or rewound; it ends the fetch in
\* Failure and no request is sent after it.
C15_MismatchIsFinal ==
    /\ [](Fetching =>
            /\ (write_to # "None" /\ fd = "closed"
                /\ SizeMismatch(total_size, total_downloaded)) =>
                  (pc = "done" /\ ~outcome.ok /\ outcome.exp = "AssertionError")
            /\ outcome.exp = "AssertionError" =>
                  /\ pc = "done" /\ outcome.kind # "none" /\ ~outcome.ok
                  /\ total_size # 0 /\ Delivered # total_size
                  /\ total_downloaded = Delivered
                  /\ IF write_to # "None" THEN fd = "closed"
                     ELSE fd = "BytesIO" /\ pos = 0
                  /\ requests = RequestsMade)
    /\ [][outcome.exp = "AssertionError" =>
            (requests' = requests \/ pc' = "idle")]_vars

C15_Witness ==
    /\ entry = "download_file" /\ outcome.exp = "AssertionError"
    /\ fd = "closed" /\ Len(chunks) = 2 /\ Delivered = 4 /\ total_size = 3
    /\ history.status = 1 /\ requests = 2

\* C16: for total > 0 and 0 <= cumulative < total the line has exactly
\* floor(cumulative * (width-2) / total) dots, spaces in the other slots, the
\* percentage floor(cumulative * 100 / total) <= 99 and a carriage return.
C16_ExactFloor ==
    (hook # NoHook /\ calls # <<>> /\ LastCall[3] > 0
     /\ hook._current_size >= 0 /\ hook._current_size < LastCall[3]) =>
        LET d == (hook._current_size * (width - 2)) \div LastCall[3]
            p == (hook._current_size * 100) \div LastCall[3]
        IN /\ hook._last_line = BarLine(d, width - 2 - d, p, "\r")
           /\ p <= 99 /\ d <= width - 2

\* C17: a fetch sends at most 1 + FAILURE_RETRIES requests: every failed
\* attempt lowers the total budget, and when it is used up the fetch has
\* ended in Failure.
C17_BoundedAttempts ==
    /\ [](Fetching =>
            /\ requests <= FAILURE_RETRIES + 1
            /\ requests - 1 <= FAILURE_RETRIES
            /\ retries.total >= -1
            /\ (requests = FAILURE_RETRIES + 1 /\ status_code = 0) =>
                  (pc = "done" /\ outcome.kind # "none" /\ ~outcome.ok))
    /\ [][(pc = "get" /\ pc' = "get" /\ requests' # requests) =>
            retries'.total < retries.total]_vars

C17_Witness ==
    /\ entry = "download_file" /\ pc = "done" /\ requests = 7
    /\ history.connect = 4 /\ history.read = 3 /\ ~outcome.ok
    /\ outcome.exp = "ConnectionError"

\* C18: during a fetch by download_file the ReportHook's cumulative size
\* equals the number of bytes received so far.
C18_CumulativeIsReceived ==
    (entry = "download_file" /\ hook # NoHook) =>
        hook._current_size = Delivered

\* C19: during a fetch by download_file no chunk arrives once the 100% line
\* has been printed.
C19_CompleteOnlyAtEnd ==
    [][(entry = "download_file" /\ Len(chunks') > Len(chunks)) =>
          Count(HookLines(stdout), FullLine) = 0]_vars

\* C20: reporthook never divides by zero: the cumulative size is never
\* negative, so the branch that computes the ratio is entered only with
\* total_size > 0, and every call computes a line.
C20_NoDivisionByZero ==
    hook # NoHook =>
        /\ hook._current_size >= 0
        /\ hook._last_line # ZeroDivisionLine
        /\ \A i \in 1..Len(stdout) : stdout[i] # ZeroDivisionLine
        /\ calls # <<>> =>
              /\ hook._last_line.kind \in {"bar", "unknown size"}
              /\ (LastCall[3] # -1 /\ hook._current_size < LastCall[3]) =>
                    (LastCall[3] > 0 /\ hook._last_line.end = "\r")

C20_Witness ==
    /\ entry = "download_file" /\ total_size = 0 /\ Len(chunks) = 2
    /\ LastCall[3] = 0 /\ hook._last_line = FullLine

====
